---- MODULE Spec2Model ----
(***************************************************************************)
(* Model of src/src/hl_monitor.py: the Hargreaves Lansdown due-diligence   *)
(* monitor.  Each OS process runs one entry point of the module at a time  *)
(* (the script's main(), or one of its functions called on its own); the   *)
(* functions share the reports directory, the mail relay and the clock.    *)
(***************************************************************************)
EXTENDS Integers, Sequences, FiniteSets, TLC

(* ------------------------------ bounds -------------------------------- *)

\* Calendar days the clock can reach.
MaxDay == 2
\* Days per month of the model's calendar.
DaysPerMonth == 2
\* pause_turn responses the service gives to one conduct_research call.
MaxPauses == 2
\* How many of SampleContents the service can answer with.
NumContents == 2
\* Entry-point invocations of each process in the two-process specification.
RaceSessions == 1

(* ------------------------------ values -------------------------------- *)

\* Python's None, a str, and the (report, date) tuple load_previous_report returns.
NoneV == [py |-> "None"]
Str(s) == [py |-> "str", str |-> s]
Tuple2(r, d) == [py |-> "tuple", report |-> r, date |-> d]
Raised(e) == [py |-> "raise", exc |-> e]

\* bool(v) as `if previous:` takes it: None is false, a 2-tuple is never empty.
Truthy(v) == v.py # "None"

NoFile == [kind |-> "absent"]
QUOTE == "\""
BSLASH == "\\"
NL == "\n"

Procs == {1, 2}
Days == 1..MaxDay

Min(a, b) == IF a < b THEN a ELSE b

\* A content block of an API response: a text block has a .text attribute,
\* a tool-use / search-result block has none.
TextBlock(s) == [type |-> "text", text |-> s]
ToolBlock == [type |-> "server_tool_use"]

SampleContents ==
  << << ToolBlock >>,
     << ToolBlock, TextBlock(<< QUOTE, BSLASH >>), TextBlock(<< NL >>) >>,
     << TextBlock(<< "a" >>) >>,
     << TextBlock(<< "a", NL, NL, "a" >>), ToolBlock, TextBlock(<< >>) >>,
     << TextBlock(<< "a", "a", QUOTE, "a", "a" >>) >> >>

Contents == { SampleContents[i] : i \in 1..Min(NumContents, Len(SampleContents)) }

StopReasons == {"pause_turn", "end_turn", "max_tokens"}

Responses == [stop_reason : StopReasons, content : Contents]

\* for block in response.content: if hasattr(block, "text"): text += block.text
RECURSIVE ExtractText(_)
ExtractText(content) ==
  IF content = << >> THEN << >>
  ELSE (IF "text" \in DOMAIN Head(content) THEN Head(content).text ELSE << >>)
       \o ExtractText(Tail(content))

Reports == { ExtractText(c) : c \in Contents }

(* ------------------------------ clock --------------------------------- *)

MonthNames == << "January", "February", "March", "April", "May", "June", "July" >>

Calendar(d) ==
  [year |-> 2025, month |-> ((d - 1) \div DaysPerMonth) + 1,
   dom |-> ((d - 1) % DaysPerMonth) + 1]

\* strftime("%d %B %Y")
FormatLong(d) ==
  << Calendar(d).dom, MonthNames[Calendar(d).month], Calendar(d).year >>

\* strftime("%Y-%m-%d")
FormatISODateNoDay(d) == << Calendar(d).year, Calendar(d).month >>

FormatISODate(d) == << Calendar(d).year, Calendar(d).month, Calendar(d).dom >>

\* isoformat()
IsoFormat(d) == << "iso", Calendar(d).year, Calendar(d).month, Calendar(d).dom >>

\* (now.replace(day=1) + timedelta(days=32)).replace(day=1).strftime("%d %B %Y")
NextScheduled(d) ==
  << 1, MonthNames[Calendar(d).month + 1], Calendar(d).year >>

(* ------------------------------- JSON --------------------------------- *)

EscapeCharNoQuote(c) ==
  IF c = BSLASH THEN << BSLASH, BSLASH >>
  ELSE IF c = NL THEN << BSLASH, "n" >>
  ELSE << c >>

\* json.dump's escaping of one character of a str
EscapeChar(c) ==
  IF c = QUOTE THEN << BSLASH, QUOTE >>
  ELSE IF c = BSLASH THEN << BSLASH, BSLASH >>
  ELSE IF c = NL THEN << BSLASH, "n" >>
  ELSE << c >>

RECURSIVE JsonEscape(_)
JsonEscape(s) ==
  IF s = << >> THEN << >> ELSE EscapeChar(Head(s)) \o JsonEscape(Tail(s))

\* The JSON string literal json.dump writes for a str.
JsonString(s) == << QUOTE >> \o JsonEscape(s) \o << QUOTE >>

\* json.load's scan of a string literal's body (the text after the opening
\* quote): the decoded characters up to the closing quote; anything after the
\* closing quote, or no closing quote, is a JSONDecodeError.
DecodeError == [ok |-> FALSE]
Decoded(v) == [ok |-> TRUE, val |-> v]

RECURSIVE ScanString(_, _)
ScanString(text, acc) ==
  IF text = << >> THEN DecodeError
  ELSE IF Head(text) = QUOTE
       THEN (IF Tail(text) = << >> THEN Decoded(acc) ELSE DecodeError)
  ELSE IF Head(text) = BSLASH
       THEN (IF Len(text) < 2 THEN DecodeError
             ELSE LET e == text[2]
                      c == IF e = "n" THEN NL ELSE e
                  IN ScanString(Tail(Tail(text)), acc \o << c >>))
  ELSE ScanString(Tail(text), acc \o << Head(text) >>)

JsonParseString(lit) ==
  IF lit = << >> \/ Head(lit) # QUOTE THEN DecodeError
  ELSE ScanString(Tail(lit), << >>)

(* ---------------------------- file contents --------------------------- *)

EmptyFile == [kind |-> "empty"]
Garbled(n) == [kind |-> "garbled", len |-> n]

\* json.dump(data, f, indent=2) of save_report's dict
JsonDump(data) ==
  [kind |-> "json", date |-> data.date, timestamp |-> data.timestamp,
   report |-> JsonString(data.report)]

\* Length of a file's text; the date and timestamp members have a fixed width.
TextLen(c) ==
  IF c.kind = "empty" THEN 0
  ELSE IF c.kind = "garbled" THEN c.len
  ELSE 1 + Len(c.report)

\* A write at offset 0 through a handle opened earlier: the bytes written
\* replace the head of what the file holds now, and a longer old text keeps
\* its tail.
WriteAtStart(old, new) ==
  IF old.kind = "absent" \/ TextLen(old) <= TextLen(new) THEN new
  ELSE Garbled(TextLen(old))

\* json.load of a file's text
JsonLoad(c) ==
  IF c.kind # "json" THEN DecodeError
  ELSE IF ~JsonParseString(c.report).ok THEN DecodeError
  ELSE Decoded([date |-> c.date, timestamp |-> c.timestamp,
                report |-> JsonParseString(c.report).val])

\* dict.get(key, default)
DictGet(d, key, default) == IF key \in DOMAIN d THEN d[key] ELSE default

(* --------------------------- markup and render ------------------------ *)

BR == "<br>"
PARA == "</p><p style=\"margin: 10px 0;\">"

\* md_to_html: over the model's characters only the two line-break
\* replacements can apply (no '#', '*' or '|' occurs in a sample text);
\* '\n\n' is replaced first, then every '\n' that is left.
RECURSIVE md_to_html(_)
md_to_html(text) ==
  IF text = << >> THEN << >>
  ELSE IF Len(text) >= 2 /\ text[1] = NL /\ text[2] = NL
       THEN << PARA >> \o md_to_html(Tail(Tail(text)))
  ELSE IF Head(text) = NL THEN << BR >> \o md_to_html(Tail(text))
  ELSE << Head(text) >> \o md_to_html(Tail(text))

FirstRunSubject == "First HL Due Diligence Report"
MonthlySubject == "Monthly HL Due Diligence Update"
NoSection == [heading |-> "none"]
ComparisonSection(body) == [heading |-> "Changes Since Last Report", body |-> body]

\* Names bound in the module's global namespace: the imports of lines 8-15,
\* the configuration and path constants and the functions.  main()'s
\* `from datetime import timedelta` binds timedelta in main's local scope only.
ModuleGlobalsWithTimedelta ==
  {"os", "json", "smtplib", "anthropic", "MIMEText", "MIMEMultipart",
   "datetime", "timedelta", "Path"}

ModuleGlobals ==
  {"os", "json", "smtplib", "anthropic", "MIMEText", "MIMEMultipart",
   "datetime", "Path"}

\* create_email_html(comparison, full_report, is_first_run) evaluated on day d:
\* what it raises, or the (html, subject_line) it returns.  The f-string of
\* lines 254-293 evaluates its fields in order, the last being the footer's
\* timedelta expression.
create_email_html(comparison, full_report, is_first_run, d) ==
  IF ~is_first_run /\ comparison.py # "str" THEN Raised("TypeError")
  ELSE IF full_report.py # "str" THEN Raised("TypeError")
  ELSE IF "timedelta" \notin ModuleGlobals THEN Raised("NameError")
  ELSE [py |-> "tuple",
        subject |-> IF is_first_run THEN FirstRunSubject ELSE MonthlySubject,
        html |-> [generated |-> FormatLong(d),
                  first_run_intro |-> is_first_run,
                  comparison_section |->
                    IF is_first_run THEN NoSection
                    ELSE ComparisonSection(md_to_html(comparison.str)),
                  full_report |-> md_to_html(full_report.str),
                  next_scheduled |-> NextScheduled(d)]]

(* ------------------------------- state -------------------------------- *)

VARIABLES
  today,        \* the calendar day datetime.now() falls on
  dir_exists,   \* REPORTS_DIR exists
  latest,       \* contents of LATEST_REPORT_PATH
  archive,      \* archive file name -> contents, for the files that exist
  race,         \* whether two processes run (fixed by the initial state)
  started,      \* entry points each process has started in a two-process run
  pc,           \* each process's position
  entry,        \* the entry point each process is running
  arg,          \* arguments of the function a process is in
  ret,          \* what a directly called function returned
  exc,          \* the exception that ended a process's entry point
  new_report, previous, comparison, is_first_run, rendered,   \* main's locals
  messages, response,                                         \* conduct_research's locals
  data, archive_path,                                         \* save_report's locals
  trace,        \* history: the calls a process made since its entry point started
  base,         \* history: the store when the entry point started
  delivered,    \* the messages the mail relay accepted from this entry point
  resp_log,     \* history: responses the service gave to this conduct_research
  last_saved,   \* history: the dict of the last save_report that completed, none once another starts
  day_log,      \* history: per day, what the last save_report that ran on it did to its archive file
  open_day,     \* history: the day on which a save_report opened its archive file
  last_writer   \* history: the process whose write of the latest file came last

store == << dir_exists, latest, archive >>
mainlocals == << new_report, previous, comparison, is_first_run, rendered >>
crlocals == << messages, response, resp_log >>
savelocals == << data, archive_path >>
savehist == << last_saved, day_log, open_day, last_writer >>
control == << race, started >>

vars == << today, dir_exists, latest, archive, race, started, pc, entry,
           arg, ret, exc, new_report, previous, comparison, is_first_run,
           rendered, messages, response, data, archive_path, trace, base,
           delivered, resp_log, last_saved, day_log, open_day, last_writer >>

NoArg == [f |-> "none"]
NoResponse == [stop_reason |-> "none", content |-> << >>]
NoData == [date |-> << >>, timestamp |-> << >>, report |-> << >>]
NoDayLog == [state |-> "none"]

Set(f, p, v) == [f EXCEPT ![p] = v]

InitCommon ==
  /\ today = 1
  /\ dir_exists = FALSE
  /\ latest = NoFile
  /\ archive = << >>
  /\ started = [p \in Procs |-> 0]
  /\ pc = [p \in Procs |-> "idle"]
  /\ entry = [p \in Procs |-> "none"]
  /\ arg = [p \in Procs |-> NoArg]
  /\ ret = [p \in Procs |-> NoneV]
  /\ exc = [p \in Procs |-> "none"]
  /\ new_report = [p \in Procs |-> NoneV]
  /\ previous = [p \in Procs |-> NoneV]
  /\ comparison = [p \in Procs |-> NoneV]
  /\ is_first_run = [p \in Procs |-> FALSE]
  /\ rendered = [p \in Procs |-> NoneV]
  /\ messages = [p \in Procs |-> << >>]
  /\ response = [p \in Procs |-> NoResponse]
  /\ data = [p \in Procs |-> NoData]
  /\ archive_path = [p \in Procs |-> << >>]
  /\ trace = [p \in Procs |-> << >>]
  /\ base = [p \in Procs |-> [latest |-> NoFile, archive |-> << >>]]
  /\ delivered = [p \in Procs |-> {}]
  /\ resp_log = [p \in Procs |-> << >>]
  /\ last_saved = NoneV
  /\ day_log = [d \in Days |-> NoDayLog]
  /\ open_day = [p \in Procs |-> 0]
  /\ last_writer = 0

Init == InitCommon /\ race = FALSE
InitRace == InitCommon /\ race = TRUE

(* ---------------------------- entry points ---------------------------- *)

SampleHtml == Str(<< "a" >>)

\* The calls a process can start with: the script's main(), or one function
\* of the module called on its own with sample arguments.
Calls ==
  {[f |-> "main"], [f |-> "conduct_research"], [f |-> "load_previous_report"]}
  \cup {[f |-> "compare_reports", previous_report |-> a, new_report |-> b,
         previous_date |-> FormatLong(d)] : a \in Reports, b \in Reports, d \in Days}
  \cup {[f |-> "create_email_html", comparison |-> c, full_report |-> Str(r),
         is_first_run |-> b] :
          c \in {NoneV} \cup {Str(x) : x \in Reports}, r \in Reports, b \in BOOLEAN}
  \cup {[f |-> "send_email", html_content |-> SampleHtml, subject |-> sub] :
          sub \in {FirstRunSubject, MonthlySubject}}
  \cup {[f |-> "save_report", report |-> r] : r \in Reports}

StartPc(f) ==
  CASE f = "main" -> "research"
    [] f = "conduct_research" -> "research"
    [] f = "load_previous_report" -> "load"
    [] f = "compare_reports" -> "compare"
    [] f = "create_email_html" -> "render"
    [] f = "send_email" -> "send"
    [] f = "save_report" -> "save"

Finished(p) == pc[p] \in {"done", "crashed"}

\* A process starts an entry point.  main() begins by calling
\* conduct_research() (line 328).
Invoke(p, calls) ==
  /\ pc[p] = "idle"
  /\ IF race THEN started[p] < RaceSessions ELSE p = 1
  /\ started' = IF race THEN Set(started, p, started[p] + 1) ELSE started
  /\ \E call \in calls :
       /\ entry' = Set(entry, p, call.f)
       /\ arg' = Set(arg, p, call)
       /\ pc' = Set(pc, p, StartPc(call.f))
       /\ trace' = Set(trace, p,
                       IF call.f = "main" THEN << [f |-> "conduct_research"] >>
                       ELSE << call >>)
  /\ base' = Set(base, p, [latest |-> latest, archive |-> archive])
  /\ UNCHANGED << today, store, race, ret, exc, mainlocals, crlocals,
                  savelocals, delivered, savehist >>

\* The entry point is over (returned or raised); the process exits.
Exit(p) ==
  /\ Finished(p)
  /\ pc' = Set(pc, p, "idle")
  /\ entry' = Set(entry, p, "none")
  /\ arg' = Set(arg, p, NoArg)
  /\ ret' = Set(ret, p, NoneV)
  /\ exc' = Set(exc, p, "none")
  /\ new_report' = Set(new_report, p, NoneV)
  /\ previous' = Set(previous, p, NoneV)
  /\ comparison' = Set(comparison, p, NoneV)
  /\ is_first_run' = Set(is_first_run, p, FALSE)
  /\ rendered' = Set(rendered, p, NoneV)
  /\ messages' = Set(messages, p, << >>)
  /\ response' = Set(response, p, NoResponse)
  /\ resp_log' = Set(resp_log, p, << >>)
  /\ data' = Set(data, p, NoData)
  /\ archive_path' = Set(archive_path, p, << >>)
  /\ trace' = Set(trace, p, << >>)
  /\ delivered' = Set(delivered, p, {})
  /\ base' = Set(base, p, [latest |-> NoFile, archive |-> << >>])
  /\ open_day' = Set(open_day, p, 0)
  /\ UNCHANGED << today, store, control, last_saved, day_log, last_writer >>

\* The clock passes midnight.
Tick ==
  /\ today < MaxDay
  /\ today' = today + 1
  /\ UNCHANGED << store, control, pc, entry, arg, ret, exc, mainlocals,
                  crlocals, savelocals, trace, base, delivered, savehist >>

(* --------------------------- conduct_research ------------------------- *)

ResearchPrompt(d) == [role |-> "user", content |-> << "research prompt", FormatLong(d) >>]
ContinueMessage == [role |-> "user", content |-> << "Please continue your research." >>]

\* What the service may answer to the next request of process p: the model
\* lets it ask for a continuation at most MaxPauses times in one call.
ServiceAnswers(p) ==
  { r \in Responses : r.stop_reason = "pause_turn" => Len(resp_log[p]) < MaxPauses }

ShouldContinueCapped(r, asked) == r.stop_reason = "pause_turn" /\ asked < 2

\* while response.stop_reason == "pause_turn" (line 135); asked is the number
\* of requests issued so far, which the loop does not look at.
ShouldContinue(r, asked) == r.stop_reason = "pause_turn"

\* Lines 118-133: the initial request.
ResearchRequest(p) ==
  /\ pc[p] = "research"
  /\ \E ok \in BOOLEAN :
       IF ok
       THEN /\ \E r \in ServiceAnswers(p) :
                 /\ response' = Set(response, p, r)
                 /\ resp_log' = Set(resp_log, p, << r >>)
            /\ messages' = Set(messages, p, << ResearchPrompt(today) >>)
            /\ pc' = Set(pc, p, "research_loop")
            /\ exc' = exc
       ELSE /\ pc' = Set(pc, p, "crashed")
            /\ exc' = Set(exc, p, "APIError")
            /\ UNCHANGED crlocals
  /\ UNCHANGED << today, store, control, entry, arg, ret, mainlocals,
                  savelocals, trace, base, delivered, savehist >>

\* Lines 135-149: one turn of the loop, a continuation request.
ResearchContinue(p) ==
  /\ pc[p] = "research_loop"
  /\ ShouldContinue(response[p], Len(resp_log[p]))
  /\ \E ok \in BOOLEAN :
       IF ok
       THEN /\ \E r \in ServiceAnswers(p) :
                 /\ response' = Set(response, p, r)
                 /\ resp_log' = Set(resp_log, p, Append(resp_log[p], r))
            /\ messages' = Set(messages, p,
                 messages[p] \o << [role |-> "assistant", content |-> response[p].content],
                                   ContinueMessage >>)
            /\ UNCHANGED << pc, exc >>
       ELSE /\ pc' = Set(pc, p, "crashed")
            /\ exc' = Set(exc, p, "APIError")
            /\ UNCHANGED crlocals
  /\ UNCHANGED << today, store, control, entry, arg, ret, mainlocals,
                  savelocals, trace, base, delivered, savehist >>

\* Lines 151-158: the loop is left, the text segments of the response are
\* joined and returned; main() goes on to load_previous_report() (line 331).
ResearchReturn(p) ==
  /\ pc[p] = "research_loop"
  /\ ~ShouldContinue(response[p], Len(resp_log[p]))
  /\ LET report_text == ExtractText(response[p].content) IN
       IF entry[p] = "main"
       THEN /\ new_report' = Set(new_report, p, Str(report_text))
            /\ pc' = Set(pc, p, "load")
            /\ trace' = Set(trace, p, Append(trace[p], [f |-> "load_previous_report"]))
            /\ messages' = Set(messages, p, << >>)
            /\ response' = Set(response, p, NoResponse)
            /\ resp_log' = Set(resp_log, p, << >>)
            /\ ret' = ret
       ELSE /\ ret' = Set(ret, p, Str(report_text))
            /\ pc' = Set(pc, p, "done")
            /\ UNCHANGED << new_report, trace, crlocals >>
  /\ UNCHANGED << today, store, control, entry, arg, exc, previous,
                  comparison, is_first_run, rendered, savelocals, base,
                  delivered, savehist >>

(* ------------------------- load_previous_report ----------------------- *)

\* Lines 186-190: None when the latest file is absent, otherwise the
\* (report, date) of the JSON document in it; json.load raises on a file
\* that holds no complete document.
load_previous_report(file) ==
  IF file.kind = "absent" THEN NoneV
  ELSE IF ~JsonLoad(file).ok THEN Raised("JSONDecodeError")
  ELSE Tuple2(DictGet(JsonLoad(file).val, "report", << >>),
              DictGet(JsonLoad(file).val, "date", << "Unknown" >>))

LoadPrevious(p) ==
  /\ pc[p] = "load"
  /\ LET result == load_previous_report(latest) IN
       IF result.py = "raise"
       THEN /\ pc' = Set(pc, p, "crashed")
            /\ exc' = Set(exc, p, result.exc)
            /\ UNCHANGED << ret, previous >>
       ELSE IF entry[p] = "main"
       THEN /\ previous' = Set(previous, p, result)
            /\ pc' = Set(pc, p, "fork")
            /\ UNCHANGED << ret, exc >>
       ELSE /\ ret' = Set(ret, p, result)
            /\ pc' = Set(pc, p, "done")
            /\ UNCHANGED << exc, previous >>
  /\ UNCHANGED << today, store, control, entry, arg, new_report,
                  comparison, is_first_run, rendered, crlocals, savelocals, trace,
                  base, delivered, savehist >>

(* -------------------------------- main -------------------------------- *)

RenderCall(c, r, first) ==
  [f |-> "create_email_html", comparison |-> c, full_report |-> r, is_first_run |-> first]

\* Lines 334-345: `if previous:` either calls compare_reports with the stored
\* report, the new report and the stored date, or marks the first run and
\* goes to create_email_html.
MainFork(p) ==
  /\ pc[p] = "fork"
  /\ IF Truthy(previous[p])
     THEN LET call == [f |-> "compare_reports",
                       previous_report |-> previous[p].report,
                       new_report |-> new_report[p].str,
                       previous_date |-> previous[p].date]
          IN /\ arg' = Set(arg, p, call)
             /\ trace' = Set(trace, p, Append(trace[p], call))
             /\ pc' = Set(pc, p, "compare")
             /\ UNCHANGED << comparison, is_first_run >>
     ELSE LET call == RenderCall(NoneV, new_report[p], TRUE)
          IN /\ comparison' = Set(comparison, p, NoneV)
             /\ is_first_run' = Set(is_first_run, p, TRUE)
             /\ arg' = Set(arg, p, call)
             /\ trace' = Set(trace, p, Append(trace[p], call))
             /\ pc' = Set(pc, p, "render")
  /\ UNCHANGED << today, store, control, entry, ret, exc, new_report,
                  previous, rendered, crlocals, savelocals, base, delivered,
                  savehist >>

(* ---------------------------- compare_reports ------------------------- *)

\* Lines 161-181: one request without the search tool; the text segments of
\* the response are joined.  In main() the result becomes `comparison`,
\* is_first_run is set False and create_email_html is called (line 345).
CompareReports(p) ==
  /\ pc[p] = "compare"
  /\ \E ok \in BOOLEAN :
       IF ok
       THEN \E r \in Responses :
              LET comparison_text == Str(ExtractText(r.content)) IN
                IF entry[p] = "main"
                THEN LET call == RenderCall(comparison_text, new_report[p], FALSE)
                     IN /\ comparison' = Set(comparison, p, comparison_text)
                        /\ is_first_run' = Set(is_first_run, p, FALSE)
                        /\ arg' = Set(arg, p, call)
                        /\ trace' = Set(trace, p, Append(trace[p], call))
                        /\ pc' = Set(pc, p, "render")
                        /\ UNCHANGED << ret, exc >>
                ELSE /\ ret' = Set(ret, p, comparison_text)
                     /\ pc' = Set(pc, p, "done")
                     /\ UNCHANGED << comparison, is_first_run, arg, trace, exc >>
       ELSE /\ pc' = Set(pc, p, "crashed")
            /\ exc' = Set(exc, p, "APIError")
            /\ UNCHANGED << comparison, is_first_run, arg, trace, ret >>
  /\ UNCHANGED << today, store, control, entry, new_report, previous,
                  rendered, crlocals, savelocals, base, delivered, savehist >>

(* --------------------------- create_email_html ------------------------ *)

SendCall(html, subject) == [f |-> "send_email", html_content |-> html, subject |-> subject]

\* Lines 214-295, and in main() the call of send_email that follows (line 348).
CreateEmailHtml(p) ==
  /\ pc[p] = "render"
  /\ LET result == create_email_html(arg[p].comparison, arg[p].full_report,
                                     arg[p].is_first_run, today)
     IN IF result.py = "raise"
        THEN /\ pc' = Set(pc, p, "crashed")
             /\ exc' = Set(exc, p, result.exc)
             /\ UNCHANGED << rendered, arg, trace, ret >>
        ELSE IF entry[p] = "main"
        THEN LET call == SendCall(result.html, result.subject)
             IN /\ rendered' = Set(rendered, p, result)
                /\ arg' = Set(arg, p, call)
                /\ trace' = Set(trace, p, Append(trace[p], call))
                /\ pc' = Set(pc, p, "send")
                /\ UNCHANGED << ret, exc >>
        ELSE /\ ret' = Set(ret, p, result)
             /\ pc' = Set(pc, p, "done")
             /\ UNCHANGED << rendered, arg, trace, exc >>
  /\ UNCHANGED << today, store, control, entry, new_report, previous,
                  comparison, is_first_run, crlocals, savelocals, base, delivered,
                  savehist >>

(* ------------------------------ send_email ---------------------------- *)

SaveCall(r) == [f |-> "save_report", report |-> r]

\* Lines 298-316: the relay either accepts the message or the SMTP session
\* raises; in main() save_report(new_report) follows (line 351).
SendEmail(p) ==
  /\ pc[p] = "send"
  /\ \E ok \in BOOLEAN :
       IF ok
       THEN LET msg == [subject |-> arg[p].subject, html |-> arg[p].html_content] IN
              /\ delivered' = Set(delivered, p, delivered[p] \cup {msg})
              /\ IF entry[p] = "main"
                 THEN /\ arg' = Set(arg, p, SaveCall(new_report[p].str))
                      /\ trace' = Set(trace, p, Append(trace[p], SaveCall(new_report[p].str)))
                      /\ pc' = Set(pc, p, "save")
                 ELSE /\ pc' = Set(pc, p, "done")
                      /\ UNCHANGED << arg, trace >>
              /\ exc' = exc
       ELSE /\ pc' = Set(pc, p, "crashed")
            /\ exc' = Set(exc, p, "SMTPException")
            /\ UNCHANGED << delivered, arg, trace >>
  /\ UNCHANGED << today, store, control, entry, ret, mainlocals, crlocals,
                  savelocals, base, savehist >>

(* ------------------------------ save_report --------------------------- *)

\* REPORTS_DIR / f"report_{datetime.now().strftime('%Y-%m-%d')}.json"
ArchivePath(d) == FormatISODate(d)

WriteFile(files, name, content) ==
  [n \in DOMAIN files \cup {name} |-> IF n = name THEN content ELSE files[n]]

FileAt(files, name) == IF name \in DOMAIN files THEN files[name] ELSE NoFile

\* Lines 195-201: the directory is created if absent and the record is built
\* from the clock and the report.
SavePrepare(p) ==
  /\ pc[p] = "save"
  /\ \E ok \in BOOLEAN :
       IF ok
       THEN /\ dir_exists' = TRUE
            /\ data' = Set(data, p, [date |-> FormatLong(today),
                                     timestamp |-> IsoFormat(today),
                                     report |-> arg[p].report])
            /\ pc' = Set(pc, p, "save_open_latest")
            /\ exc' = exc
       ELSE /\ pc' = Set(pc, p, "crashed")
            /\ exc' = Set(exc, p, "OSError")
            /\ UNCHANGED << dir_exists, data >>
  /\ last_saved' = NoneV
  /\ UNCHANGED << today, latest, archive, control, entry, arg, ret,
                  mainlocals, crlocals, archive_path, trace, base, delivered,
                  day_log, open_day, last_writer >>

\* Line 203: open(LATEST_REPORT_PATH, "w") creates or truncates the file.
SaveOpenLatest(p) ==
  /\ pc[p] = "save_open_latest"
  /\ \E ok \in BOOLEAN :
       IF ok
       THEN /\ latest' = EmptyFile
            /\ pc' = Set(pc, p, "save_write_latest")
            /\ exc' = exc
       ELSE /\ pc' = Set(pc, p, "crashed")
            /\ exc' = Set(exc, p, "OSError")
            /\ latest' = latest
  /\ UNCHANGED << today, dir_exists, archive, control, entry, arg, ret,
                  mainlocals, crlocals, savelocals, trace, base, delivered,
                  savehist >>

\* Line 204 and the end of the with block: the document is written and the
\* file closed.
SaveWriteLatest(p) ==
  /\ pc[p] = "save_write_latest"
  /\ \E ok \in BOOLEAN :
       IF ok
       THEN /\ latest' = WriteAtStart(latest, JsonDump(data[p]))
            /\ last_writer' = p
            /\ pc' = Set(pc, p, "save_open_archive")
            /\ exc' = exc
       ELSE /\ pc' = Set(pc, p, "crashed")
            /\ exc' = Set(exc, p, "OSError")
            /\ UNCHANGED << latest, last_writer >>
  /\ UNCHANGED << today, dir_exists, archive, control, entry, arg, ret,
                  mainlocals, crlocals, savelocals, trace, base, delivered,
                  last_saved, day_log, open_day >>

\* Lines 207-208: the archive file of the current day is named and opened.
SaveOpenArchive(p) ==
  /\ pc[p] = "save_open_archive"
  /\ \E ok \in BOOLEAN :
       IF ok
       THEN /\ archive_path' = Set(archive_path, p, ArchivePath(today))
            /\ archive' = WriteFile(archive, ArchivePath(today), EmptyFile)
            /\ open_day' = Set(open_day, p, today)
            /\ day_log' = [day_log EXCEPT ![today] = [state |-> "open"]]
            /\ pc' = Set(pc, p, "save_write_archive")
            /\ exc' = exc
       ELSE /\ pc' = Set(pc, p, "crashed")
            /\ exc' = Set(exc, p, "OSError")
            /\ UNCHANGED << archive_path, archive, open_day, day_log >>
  /\ UNCHANGED << today, dir_exists, latest, control, entry, arg, ret,
                  mainlocals, crlocals, data, trace, base, delivered,
                  last_saved, last_writer >>

\* Lines 209-211: the same document is written to the archive file, and
\* save_report returns; in main() nothing but progress lines follows.
SaveWriteArchive(p) ==
  /\ pc[p] = "save_write_archive"
  /\ \E ok \in BOOLEAN :
       IF ok
       THEN /\ archive' = WriteFile(archive, archive_path[p],
                             WriteAtStart(FileAt(archive, archive_path[p]), JsonDump(data[p])))
            /\ day_log' = [day_log EXCEPT ![open_day[p]] =
                             [state |-> "saved", report |-> data[p].report]]
            /\ last_saved' = [py |-> "dict", date |-> data[p].date, report |-> data[p].report]
            /\ pc' = Set(pc, p, "done")
            /\ exc' = exc
       ELSE /\ pc' = Set(pc, p, "crashed")
            /\ exc' = Set(exc, p, "OSError")
            /\ UNCHANGED << archive, day_log, last_saved >>
  /\ UNCHANGED << today, dir_exists, latest, control, entry, arg, ret,
                  mainlocals, crlocals, savelocals, trace, base, delivered,
                  open_day, last_writer >>

(* --------------------------- specifications --------------------------- *)

MainCalls == { c \in Calls : c.f \in {"main", "save_report", "send_email"} }

Next ==
  \/ Tick
  \/ \E p \in Procs :
       \/ Invoke(p, MainCalls)
       \/ ResearchRequest(p)
       \/ ResearchContinue(p)
       \/ ResearchReturn(p)
       \/ LoadPrevious(p)
       \/ MainFork(p)
       \/ CompareReports(p)
       \/ CreateEmailHtml(p)
       \/ SendEmail(p)
       \/ SavePrepare(p)
       \/ SaveOpenLatest(p)
       \/ SaveWriteLatest(p)
       \/ SaveOpenArchive(p)
       \/ SaveWriteArchive(p)
       \/ Exit(p)

\* One process at a time: any sequence of sequential invocations.
Spec == Init /\ [][Next]_vars

\* The report store on its own: save_report and load_previous_report called
\* one after the other, in any order, on any days.
StoreCalls == { c \in Calls : c.f \in {"save_report", "load_previous_report"} }

NextStore ==
  \/ Tick
  \/ \E p \in Procs :
       \/ Invoke(p, StoreCalls)
       \/ LoadPrevious(p)
       \/ SavePrepare(p)
       \/ SaveOpenLatest(p)
       \/ SaveWriteLatest(p)
       \/ SaveOpenArchive(p)
       \/ SaveWriteArchive(p)
       \/ Exit(p)

SpecStore == Init /\ [][NextStore]_vars

\* conduct_research on its own, against every behaviour of the service.
ResearchCalls == { c \in Calls : c.f = "conduct_research" }

NextResearch ==
  \/ Tick
  \/ \E p \in Procs :
       \/ Invoke(p, ResearchCalls)
       \/ ResearchRequest(p)
       \/ ResearchContinue(p)
       \/ ResearchReturn(p)
       \/ Exit(p)

SpecResearch == Init /\ [][NextResearch]_vars

\* The code is synchronous: a call that can take its next step takes it.
ResearchStep(p) == ResearchRequest(p) \/ ResearchContinue(p) \/ ResearchReturn(p)

SpecResearchFair == SpecResearch /\ \A p \in Procs : WF_vars(ResearchStep(p))

\* Two processes, each invoking main() or one of the functions main() does
\* not reach a second way, interleaved at will.
RaceCalls == { c \in Calls : c.f \notin {"conduct_research", "compare_reports"} }

NextRace ==
  \/ Tick
  \/ \E p \in Procs :
       \/ Invoke(p, RaceCalls)
       \/ ResearchRequest(p)
       \/ ResearchContinue(p)
       \/ ResearchReturn(p)
       \/ LoadPrevious(p)
       \/ MainFork(p)
       \/ CompareReports(p)
       \/ CreateEmailHtml(p)
       \/ SendEmail(p)
       \/ SavePrepare(p)
       \/ SaveOpenLatest(p)
       \/ SaveWriteLatest(p)
       \/ SaveOpenArchive(p)
       \/ SaveWriteArchive(p)
       \/ Exit(p)

SpecRace == InitRace /\ [][NextRace]_vars

(* ----------------------------- properties ----------------------------- *)

\* The failures of the steps a run depends on: the two API calls, the read of
\* the latest file, the mail transmission and the file writes.
StepFailures == {"APIError", "JSONDecodeError", "SMTPException", "OSError"}

MainRunOver(p) == entry[p] = "main" /\ Finished(p)
NoStepFailed(p) == exc[p] \notin StepFailures

CallsOf(p, f) == { i \in 1..Len(trace[p]) : trace[p][i].f = f }

\* C1: a run of main() executes save_report only after send_email has
\* returned, as its last step: a run in which no step fails ends with
\* send_email followed by save_report, and a run in which send_email raises
\* leaves the latest record and the archive as they were.
C1_SaveLastAfterSend ==
  \A p \in Procs :
    /\ (MainRunOver(p) /\ NoStepFailed(p)) =>
         /\ pc[p] = "done"
         /\ Len(trace[p]) >= 2
         /\ trace[p][Len(trace[p])].f = "save_report"
         /\ trace[p][Len(trace[p]) - 1].f = "send_email"
         /\ delivered[p] # {}
    /\ (MainRunOver(p) /\ exc[p] = "SMTPException") =>
         (latest = base[p].latest /\ archive = base[p].archive)

\* C2: after a run of main() in which no step fails, the latest record
\* exists and its report field is the text conduct_research returned.
C2_LatestIsNewReport ==
  \A p \in Procs :
    (MainRunOver(p) /\ NoStepFailed(p)) =>
      /\ latest.kind = "json"
      /\ JsonLoad(latest).ok
      /\ Str(JsonLoad(latest).val.report) = new_report[p]

\* C3: when no latest record exists, the run does not call compare_reports,
\* renders with is_first_run true, and the rendered result has the first-run
\* subject and no comparison section.
C3_FirstRunRender ==
  \A p \in Procs :
    (MainRunOver(p) /\ NoStepFailed(p) /\ base[p].latest.kind = "absent") =>
      /\ CallsOf(p, "compare_reports") = {}
      /\ is_first_run[p]
      /\ rendered[p].py = "tuple"
      /\ rendered[p].subject = FirstRunSubject
      /\ rendered[p].html.comparison_section = NoSection

\* C4: when a latest record exists, the run calls compare_reports exactly
\* once, with the stored report, the new report and the stored date, renders
\* with is_first_run false, and the rendered email holds a comparison section
\* built from the text compare_reports returned.
C4_ComparisonRender ==
  \A p \in Procs :
    (MainRunOver(p) /\ NoStepFailed(p) /\ base[p].latest.kind = "json") =>
      /\ Cardinality(CallsOf(p, "compare_reports")) = 1
      /\ \A i \in CallsOf(p, "compare_reports") :
           /\ trace[p][i].previous_report = JsonLoad(base[p].latest).val.report
           /\ Str(trace[p][i].new_report) = new_report[p]
           /\ trace[p][i].previous_date = JsonLoad(base[p].latest).val.date
      /\ ~is_first_run[p]
      /\ rendered[p].py = "tuple"
      /\ rendered[p].html.comparison_section
           = ComparisonSection(md_to_html(comparison[p].str))

\* C5: a load_previous_report that follows a completed save_report(r), with
\* no save started in between, returns (r, the date string that save wrote);
\* it neither raises nor returns None.
C5_SaveThenLoad ==
  \A p \in Procs :
    (entry[p] = "load_previous_report" /\ Finished(p) /\ last_saved.py = "dict") =>
      /\ pc[p] = "done"
      /\ ret[p] = Tuple2(last_saved.report, last_saved.date)

C5_Witness ==
  \E p \in Procs :
    /\ entry[p] = "load_previous_report" /\ pc[p] = "done"
    /\ last_saved.py = "dict"
    /\ \E i \in 1..Len(last_saved.report) : last_saved.report[i] = QUOTE

\* C6: the archive holds one file per day on which a save_report wrote its
\* archive copy, under that day's name, holding the report of the last save
\* of that day; a save touches the archive file of no other day.
C6_ArchivePerDay ==
  /\ \A d \in Days :
       LET f == FileAt(archive, ArchivePath(d)) IN
         /\ day_log[d].state = "none" => f = NoFile
         /\ day_log[d].state = "open" => f = EmptyFile
         /\ day_log[d].state = "saved" =>
              /\ f.kind = "json"
              /\ JsonLoad(f).ok
              /\ JsonLoad(f).val.report = day_log[d].report
  /\ Cardinality(DOMAIN archive)
       = Cardinality({ d \in Days : day_log[d].state # "none" })

C6_Witness ==
  /\ \A d \in {1, 2} : day_log[d].state = "saved"
  /\ day_log[1].report # day_log[2].report
  /\ Cardinality(DOMAIN archive) = 2
  /\ \A p \in Procs : pc[p] = "idle"

ResearchLoopInv ==
  \A p \in Procs :
    LET n == Len(resp_log[p]) IN
      /\ pc[p] \in {"research_loop", "done"} =>
           /\ n >= 1
           /\ Len(messages[p]) = 2 * n - 1
           /\ \A i \in 1..(n - 1) : resp_log[p][i].stop_reason = "pause_turn"
      /\ pc[p] = "done" =>
           /\ resp_log[p][n].stop_reason # "pause_turn"
           /\ ret[p] = Str(ExtractText(resp_log[p][n].content))

\* C8: conduct_research issues one request and one more for each pause_turn
\* response, returns exactly when a response has another status, and returns
\* the joined text segments of that last response; given a service that stops
\* asking for continuations, every call ends.
C8_ResearchLoop ==
  /\ []ResearchLoopInv
  /\ \A p \in Procs : (pc[p] = "research") ~> Finished(p)

C8_Witness ==
  \E p \in Procs :
    /\ pc[p] = "done"
    /\ Len(resp_log[p]) >= 3
    /\ resp_log[p][Len(resp_log[p])].stop_reason = "max_tokens"
    /\ ret[p].str # << >>
    /\ ExtractText(resp_log[p][1].content) # << >>

\* C9: two calls of create_email_html with the same three arguments, at any
\* two times, return the same subject line and the same HTML.
C9_RenderDeterministic ==
  \A p \in Procs : \A q \in Procs :
    (/\ entry[p] = "create_email_html" /\ Finished(p)
     /\ entry[q] = "create_email_html" /\ Finished(q)
     /\ arg[p] = arg[q]
     /\ arg[p].full_report.py = "str"
     /\ (arg[p].is_first_run \/ arg[p].comparison.py = "str")) =>
      /\ ret[p].py = "tuple"
      /\ ret[q].py = "tuple"
      /\ ret[p] = ret[q]

\* C10: once two interleaved runs of main() have both finished, the latest
\* record is the complete record of the run that wrote it last.
C10_LastWriterWins ==
  (\A p \in Procs : MainRunOver(p) /\ NoStepFailed(p)) =>
    /\ last_writer \in Procs
    /\ latest = JsonDump(data[last_writer])
    /\ Str(data[last_writer].report) = new_report[last_writer]

====
